---- MODULE Spec2Model ----
(***************************************************************************)
(* State-machine model of onet_scraper.py: get_metadata (archive crawl),   *)
(* create_metadata_file (CSV), extract_and_save_articles (article crawl)   *)
(* and the __main__ block that runs them in sequence.                      *)
(*                                                                         *)
(* A Python str is a sequence of tokens; "/", ",", "-", " ", "\n" and the  *)
(* double quote are always tokens of their own, so that split, strip, join *)
(* and CSV quoting act on the text as the library functions do.            *)
(* A datetime.date is a record [y, m, d].                                  *)
(***************************************************************************)
EXTENDS Integers, Sequences, FiniteSets, TLC

\* ---------------------------------------------------------------- bounds
\* longest date range explored, in days (start_date .. end_date inclusive)
MaxDays == 2
\* most news items on one archive page
MaxItems == 2
\* most rows of the metadata table in the runs explored
MaxRows == 3

\* ------------------------------------------------------ datetime.date
IsLeap(y) == (y % 4 = 0 /\ y % 100 # 0) \/ y % 400 = 0

DaysInYear(y) == IF IsLeap(y) THEN 366 ELSE 365

DaysInMonth(y, m) ==
    IF m = 2 THEN (IF IsLeap(y) THEN 29 ELSE 28)
    ELSE IF m \in {4, 6, 9, 11} THEN 30 ELSE 31

\* the days of the years 1 .. y-1 of the proleptic Gregorian calendar
DaysBeforeYear(y) ==
    (y - 1) * 365 + ((y - 1) \div 4) - ((y - 1) \div 100) + ((y - 1) \div 400)

RECURSIVE DaysBeforeMonth(_, _)
DaysBeforeMonth(y, m) ==
    IF m <= 1 THEN 0 ELSE DaysBeforeMonth(y, m - 1) + DaysInMonth(y, m - 1)

\* date.toordinal(): 1 January of year 1 is day 1
ToOrdinal(dt) == DaysBeforeYear(dt.y) + DaysBeforeMonth(dt.y, dt.m) + dt.d

RECURSIVE OrdToYear(_, _)
\* the year day n falls in, searched upwards from year y, and the day of it
OrdToYear(n, y) ==
    IF n - DaysBeforeYear(y) > DaysInYear(y) THEN OrdToYear(n, y + 1)
    ELSE [y |-> y, n |-> n - DaysBeforeYear(y)]

RECURSIVE OrdToMonth(_, _, _)
OrdToMonth(n, y, m) ==
    IF n > DaysInMonth(y, m) THEN OrdToMonth(n - DaysInMonth(y, m), y, m + 1)
    ELSE [y |-> y, m |-> m, d |-> n]

\* date.fromordinal()
FromOrdinal(n) ==
    LET yn == OrdToYear(n, (n \div 366) + 1) IN OrdToMonth(yn.n, yn.y, 1)

\* (end_date - start_date).days
DateDiffDays(e, s) == ToOrdinal(e) - ToOrdinal(s)

\* start_date + timedelta(days=x)
DateAddDays(dt, x) == FromOrdinal(ToOrdinal(dt) + x)

\* ------------------------------------------------------------ str
DigitChars == <<"0", "1", "2", "3", "4", "5", "6", "7", "8", "9">>

RECURSIVE Pow10(_)
Pow10(k) == IF k = 0 THEN 1 ELSE 10 * Pow10(k - 1)

ZeroPad(n, w) == [k \in 1..w |-> DigitChars[((n \div Pow10(w - k)) % 10) + 1]]

\* date.strftime("%Y-%m-%d")
strftime(dt) ==
    ZeroPad(dt.y, 4) \o <<"-">> \o ZeroPad(dt.m, 2) \o <<"-">> \o ZeroPad(dt.d, 2)

Whitespace == {" ", "\n", "\t"}

RECURSIVE LStrip(_)
LStrip(s) ==
    IF s # <<>> /\ Head(s) \in Whitespace THEN LStrip(Tail(s)) ELSE s

RECURSIVE RStrip(_)
RStrip(s) ==
    IF s # <<>> /\ s[Len(s)] \in Whitespace
    THEN RStrip(SubSeq(s, 1, Len(s) - 1)) ELSE s

\* str.strip()
Strip(s) == RStrip(LStrip(s))

\* offsets of the separator token in s
SepPositions(s, sep) == {k \in 1..Len(s) : s[k] = sep}

\* s.split(sep)[-1]: the text after the last separator
SplitLast(s, sep) ==
    LET ps == SepPositions(s, sep)
    IN  IF ps = {} THEN s
        ELSE LET last == CHOOSE k \in ps : \A q \in ps : q <= k
             IN  SubSeq(s, last + 1, Len(s))

RECURSIVE JoinStr(_, _)
\* sep.join(parts)
JoinStr(parts, sep) ==
    IF parts = <<>> THEN <<>>
    ELSE IF Len(parts) = 1 THEN parts[1]
    ELSE parts[1] \o sep \o JoinStr(Tail(parts), sep)

\* os.path.join(a, b)
PathJoin(a, b) ==
    IF b # <<>> /\ Head(b) = "/" THEN b
    ELSE IF a = <<>> \/ a[Len(a)] = "/" THEN a \o b
    ELSE a \o <<"/">> \o b

range_of_abs(k) ==
    IF k = 0 THEN <<>> ELSE [x \in 1..(IF k < 0 THEN 0 - k ELSE k) |-> x - 1]

\* range(k), as the sequence 0, 1, ..., k-1
range_off_by_one(k) == IF k <= 1 THEN <<>> ELSE [x \in 1..(k - 1) |-> x - 1]

range(k) == IF k <= 0 THEN <<>> ELSE [x \in 1..k |-> x - 1]

Min(a, b) == IF a <= b THEN a ELSE b

\* ------------------------------------------------------ pandas.DataFrame
\* pd.DataFrame(): no columns, no rows
EmptyFrame == [columns |-> <<>>, rows |-> <<>>]

\* pd.DataFrame(list_of_tuples, columns=[...])
DataFrame(tuples, columns) == [columns |-> columns, rows |-> tuples]

\* pd.concat([a, b]): the columns of a, then those of b that a lacks; the
\* rows of a, then the rows of b
concat(a, b) ==
    [columns |-> a.columns \o SelectSeq(b.columns,
                     LAMBDA c : \A k \in 1..Len(a.columns) : a.columns[k] # c),
     rows |-> a.rows \o b.rows]

\* row[name], for a row of the frame df
Col(df, row, name) == row[CHOOSE k \in 1..Len(df.columns) : df.columns[k] = name]

\* [x] * n
Repeat(x, n) == [k \in 1..n |-> x]

\* list(zip(a, b, c, d))
zip(a, b, c, d) ==
    [k \in 1..Min(Min(Len(a), Len(b)), Min(Len(c), Len(d))) |->
        <<a[k], b[k], c[k], d[k]>>]

NeedsQuote(f) == \E k \in 1..Len(f) : f[k] \in {",", "\"", "\n", "\r"}

RECURSIVE DoubleQuotes(_)
DoubleQuotes(f) ==
    IF f = <<>> THEN <<>>
    ELSE (IF Head(f) = "\"" THEN <<"\"", "\"">> ELSE <<Head(f)>>)
         \o DoubleQuotes(Tail(f))

\* csv.QUOTE_MINIMAL
CsvField(f) ==
    IF NeedsQuote(f) THEN <<"\"">> \o DoubleQuotes(f) \o <<"\"">> ELSE f

CsvLine(fields) ==
    JoinStr([k \in 1..Len(fields) |-> CsvField(fields[k])], <<",">>)

\* what to_csv writes as the header line of a frame without columns: an
\* empty line, or a quoted empty string, depending on the pandas release
EmptyHeaderLines == {<<>>, <<"\"", "\"">>}

\* DataFrame.to_csv(filepath, index=False), as the lines of the file
to_csv(df, emptyHeader) ==
    <<IF df.columns = <<>> THEN emptyHeader
      ELSE CsvLine([k \in 1..Len(df.columns) |-> <<df.columns[k]>>])>>
    \o [k \in 1..Len(df.rows) |-> CsvLine(df.rows[k])]

\* ------------------------------------------------------------ inputs
SeqsUpTo(S, n) == UNION {[1..k -> S] : k \in 0..n}

RECURSIVE NextDays(_, _)
\* the calendar days dt, dt+1, ..., n days in all, by the civil calendar
NextDays(dt, n) ==
    IF n = 0 THEN <<>>
    ELSE <<dt>> \o NextDays(
        IF dt.d < (IF dt.m = 2 THEN (IF dt.y % 4 = 0 THEN 29 ELSE 28)
                   ELSE IF dt.m \in {4, 6, 9, 11} THEN 30 ELSE 31)
        THEN [dt EXCEPT !.d = dt.d + 1]
        ELSE IF dt.m < 12 THEN [dt EXCEPT !.m = dt.m + 1, !.d = 1]
        ELSE [y |-> dt.y + 1, m |-> 1, d |-> 1], n - 1)

\* windows of the calendar the runs are taken from: across a year's end and
\* across a leap day
Windows == {NextDays([y |-> 2023, m |-> 12, d |-> 29], MaxDays + 2),
            NextDays([y |-> 2024, m |-> 2, d |-> 27], MaxDays + 2)}

\* the command line's --path
path == <<"out", "/", "onet">>

ARCHIVE_URL == <<"https:", "/", "/", "wiadomosci.onet.pl", "/", "archiwum", "/">>

\* the news items an archive page may list: the itemTime element's text
\* and the itemTitle anchor's href and text
ArchiveItems ==
    {[itemTime |-> <<"\n", " ", "10:00", " ">>,
      href |-> <<"https:", "/", "/", "x", "/", "art-1">>,
      title |-> <<"T">>],
     [itemTime |-> <<"11:30">>,
      href |-> <<"https:", "/", "/", "x", "/", "art-2">>,
      title |-> <<"A", ",", " ", "B">>]}

\* what requests.get + raise_for_status + BeautifulSoup give for an archive URL
ArchiveResponses ==
    {[kind |-> "RequestException", dayInArchive |-> FALSE, items |-> <<>>],
     [kind |-> "ok", dayInArchive |-> FALSE, items |-> <<>>]}
    \cup {[kind |-> "ok", dayInArchive |-> TRUE, items |-> its] :
             its \in SeqsUpTo(ArchiveItems, MaxItems)}

\* what requests.get + BeautifulSoup give for an article URL
ArticleResponses ==
    {[kind |-> "Exception", lead_found |-> FALSE, lead |-> <<>>, p |-> <<>>],
     [kind |-> "ok", lead_found |-> FALSE, lead |-> <<>>, p |-> <<<<"P">>>>]}
    \cup {[kind |-> "ok", lead_found |-> TRUE, lead |-> <<"L">>, p |-> ps] :
             ps \in {<<>>, <<<<"P">>>>, <<<<"P">>, <<"Q", "R">>>>}}

\* how os.makedirs / open / write end
IoOutcomes == {"ok", "makedirs_error", "open_error", "write_error"}

\* ------------------------------------------------------------- state
VARIABLES
    start_date, end_date,   \* the parsed command-line dates
    pc,                     \* where __main__ is
    date_list, urls_list,   \* get_metadata: the expanded range
    i,                      \* get_metadata: position in urls_list (1-based)
    times, urls, titles,    \* get_metadata: the accumulators
    result,                 \* get_metadata: the frame built so far
    metadata,               \* __main__: the frame get_metadata returned
    csv,                    \* <path>/onet_metadata.csv
    j,                      \* extract_and_save_articles: row position
    files,                  \* the article files on disk: path -> text
    written,                \* paths opened for writing by this run
    archive_requested,      \* archive URLs passed to requests.get, in order
    archive_seen,           \* the response to each of them
    article_requested,      \* article URLs passed to requests.get, in order
    last,                   \* the latest article iteration: row, response, io
    exit_code, raised       \* how the process ended

vars == <<start_date, end_date, pc, date_list, urls_list, i, times, urls,
          titles, result, metadata, csv, j, files, written, archive_requested,
          archive_seen, article_requested, last, exit_code, raised>>

NoneYet == [row |-> 0, kind |-> "none", lead_found |-> FALSE, lead |-> <<>>,
            p |-> <<>>, io |-> "none"]

\* a file left by an earlier run at the place the first day's art-1 goes
OldFiles(sd) ==
    LET fp == PathJoin(path, PathJoin(strftime(sd), <<"art-1", ".txt">>))
    IN  [f \in {fp} |-> <<"OLD">>]

Init ==
    /\ \E w \in Windows :
          /\ start_date = w[3]
          /\ \E k \in 1..Len(w) : end_date = w[k]
    /\ pc = "get_metadata"
    /\ date_list = <<>> /\ urls_list = <<>> /\ i = 0
    /\ times = <<>> /\ urls = <<>> /\ titles = <<>>
    /\ result = EmptyFrame /\ metadata = EmptyFrame
    /\ csv = [exists |-> FALSE, lines |-> <<>>]
    /\ j = 0
    /\ files \in {<<>>, OldFiles(start_date)}
    /\ written = {}
    /\ archive_requested = <<>> /\ archive_seen = <<>>
    /\ article_requested = <<>>
    /\ last = NoneYet
    /\ exit_code = 0 /\ raised = "none"

\* ------------------------------------------------------- get_metadata
COLUMNS == <<"date", "time", "url", "title">>

\* the date strings of the range
DateList(sd, ed) ==
    LET no_of_days == DateDiffDays(ed, sd)
        xs == range(no_of_days + 1)
    IN  [k \in 1..Len(xs) |-> strftime(DateAddDays(sd, xs[k]))]

\* the archive URL of each date string
UrlsList(dl) == [k \in 1..Len(dl) |-> ARCHIVE_URL \o dl[k]]

\* lines 37-47: expand the range, start with empty accumulators
get_metadata_begin ==
    /\ pc = "get_metadata"
    /\ date_list' = DateList(start_date, end_date)
    /\ urls_list' = UrlsList(date_list')
    /\ times' = <<>> /\ urls' = <<>> /\ titles' = <<>>
    /\ result' = EmptyFrame
    /\ i' = 1
    /\ pc' = "archive_loop"
    /\ UNCHANGED <<start_date, end_date, metadata, csv, j, files, written,
                   archive_requested, archive_seen, article_requested, last,
                   exit_code, raised>>

\* lines 50-57: the GET or raise_for_status raises RequestException; the
\* error is logged and the loop goes on to the next URL
get_metadata_fetch_error ==
    /\ pc = "archive_loop" /\ i <= Len(urls_list)
    /\ \E r \in ArchiveResponses :
          /\ r.kind = "RequestException"
          /\ archive_seen' = Append(archive_seen, r)
    /\ archive_requested' = Append(archive_requested, urls_list[i])
    /\ i' = i + 1
    /\ UNCHANGED <<start_date, end_date, pc, date_list, urls_list, times, urls,
                   titles, result, metadata, csv, j, files, written,
                   article_requested, last, exit_code, raised>>

\* lines 59-65: content.find(class_='dayInArchive') is None, and
\* None.find_all raises AttributeError, which nothing catches: the
\* interpreter prints the traceback and exits with status 1
get_metadata_no_container ==
    /\ pc = "archive_loop" /\ i <= Len(urls_list)
    /\ \E r \in ArchiveResponses :
          /\ r.kind = "ok" /\ ~r.dayInArchive
          /\ archive_seen' = Append(archive_seen, r)
    /\ archive_requested' = Append(archive_requested, urls_list[i])
    /\ raised' = "AttributeError"
    /\ exit_code' = 1
    /\ pc' = "exit"
    /\ UNCHANGED <<start_date, end_date, date_list, urls_list, i, times, urls,
                   titles, result, metadata, csv, j, files, written,
                   article_requested, last>>

\* lines 59-79: the page's times, hrefs and titles are appended to the
\* accumulators, and the zip of the whole accumulators, tagged with this
\* URL's date, is concatenated to the frame
\* (the pages explored are those that keep the frame within MaxRows rows)
get_metadata_parse_day ==
    /\ pc = "archive_loop" /\ i <= Len(urls_list)
    /\ \E r \in ArchiveResponses :
          /\ r.kind = "ok" /\ r.dayInArchive
          /\ archive_seen' = Append(archive_seen, r)
          /\ times' = times \o [k \in 1..Len(r.items) |-> Strip(r.items[k].itemTime)]
          /\ urls' = urls \o [k \in 1..Len(r.items) |-> r.items[k].href]
          /\ titles' = titles \o [k \in 1..Len(r.items) |-> r.items[k].title]
          /\ Len(titles') <= MaxRows - Len(result.rows)
    /\ archive_requested' = Append(archive_requested, urls_list[i])
    /\ LET archive_date == SplitLast(urls_list[i], "/")
       IN  result' = concat(result,
                 DataFrame(zip(Repeat(archive_date, Len(titles')), times', urls',
                               titles'), COLUMNS))
    /\ i' = i + 1
    /\ UNCHANGED <<start_date, end_date, pc, date_list, urls_list, metadata,
                   csv, j, files, written, article_requested, last, exit_code,
                   raised>>

\* lines 81 and 193: the loop is over, the frame goes back to __main__
get_metadata_return ==
    /\ pc = "archive_loop" /\ i > Len(urls_list)
    /\ metadata' = result
    /\ pc' = "create_metadata_file"
    /\ UNCHANGED <<start_date, end_date, date_list, urls_list, i, times, urls,
                   titles, result, csv, j, files, written, archive_requested,
                   archive_seen, article_requested, last, exit_code, raised>>

\* ------------------------------------------------ create_metadata_file
\* lines 96-105 and 196: the directory is made and the frame written
create_metadata_file_ok ==
    /\ pc = "create_metadata_file"
    /\ \E h \in EmptyHeaderLines :
          csv' = [exists |-> TRUE, lines |-> to_csv(metadata, h)]
    /\ j' = 1
    /\ pc' = "extract"
    /\ UNCHANGED <<start_date, end_date, date_list, urls_list, i, times, urls,
                   titles, result, metadata, files, written, archive_requested,
                   archive_seen, article_requested, last, exit_code, raised>>

\* the variant of the failure in which the error is swallowed
create_metadata_file_error_caught ==
    /\ pc = "create_metadata_file"
    /\ j' = 1
    /\ pc' = "extract"
    /\ UNCHANGED <<start_date, end_date, date_list, urls_list, i, times, urls,
                   titles, result, metadata, csv, files, written,
                   archive_requested, archive_seen, article_requested, last,
                   exit_code, raised>>

\* lines 99-102 and 196: os.makedirs or to_csv raises OSError; neither
\* create_metadata_file nor __main__ catches it, so the interpreter exits
\* with status 1 and line 199 is never reached
create_metadata_file_error ==
    /\ pc = "create_metadata_file"
    /\ raised' = "OSError"
    /\ exit_code' = 1
    /\ pc' = "exit"
    /\ UNCHANGED <<start_date, end_date, date_list, urls_list, i, times, urls,
                   titles, result, metadata, csv, j, files, written,
                   archive_requested, archive_seen, article_requested, last>>

\* ------------------------------------------- extract_and_save_articles
full_text_no_separator(lead, p) == lead \o JoinStr(p, <<" ">>)

\* line 141: lead + ' ' + ' '.join([m.text for m in main_body])
full_text(lead, p) == lead \o <<" ">> \o JoinStr(p, <<" ">>)

\* line 145: os.path.join(path, date, f"{url.split('/')[-1]}.txt")
ArticlePath(base, date, url) ==
    PathJoin(PathJoin(base, date), SplitLast(url, "/") \o <<".txt">>)

\* open(filepath, 'w') followed by a complete write
WriteFile(fs, fp, text) ==
    [f \in DOMAIN fs \cup {fp} |-> IF f = fp THEN text ELSE fs[f]]

Seen(r, io) == [row |-> j, kind |-> r.kind, lead_found |-> r.lead_found,
                lead |-> r.lead, p |-> r.p, io |-> io]

RowUrl == Col(metadata, metadata.rows[j], "url")

RowDate == Col(metadata, metadata.rows[j], "date")

\* the variant in which the handler of line 157 is missing
extract_request_error_propagates ==
    /\ pc = "extract" /\ j <= Len(metadata.rows)
    /\ \E r \in ArticleResponses :
          /\ r.kind = "Exception"
          /\ last' = Seen(r, "none")
    /\ article_requested' = Append(article_requested, RowUrl)
    /\ raised' = "Exception"
    /\ exit_code' = 1
    /\ pc' = "exit"
    /\ UNCHANGED <<start_date, end_date, date_list, urls_list, i, times, urls,
                   titles, result, metadata, csv, j, files, written,
                   archive_requested, archive_seen>>

\* lines 122-128 and 157-159: the GET or the parse raises; the handler logs
\* the URL and the loop goes on to the next row
extract_request_error ==
    /\ pc = "extract" /\ j <= Len(metadata.rows)
    /\ \E r \in ArticleResponses :
          /\ r.kind = "Exception"
          /\ last' = Seen(r, "none")
    /\ article_requested' = Append(article_requested, RowUrl)
    /\ j' = j + 1
    /\ UNCHANGED <<start_date, end_date, pc, date_list, urls_list, i, times,
                   urls, titles, result, metadata, csv, files, written,
                   archive_requested, archive_seen, exit_code, raised>>

\* the variant in which the body is saved although the lead is missing
extract_no_lead_saves_body ==
    /\ pc = "extract" /\ j <= Len(metadata.rows)
    /\ \E r \in ArticleResponses :
          /\ r.kind = "ok" /\ ~r.lead_found
          /\ last' = Seen(r, "none")
          /\ files' = WriteFile(files, ArticlePath(path, RowDate, RowUrl),
                                JoinStr(r.p, <<" ">>))
    /\ written' = written \cup {ArticlePath(path, RowDate, RowUrl)}
    /\ article_requested' = Append(article_requested, RowUrl)
    /\ j' = j + 1
    /\ UNCHANGED <<start_date, end_date, pc, date_list, urls_list, i, times,
                   urls, titles, result, metadata, csv, archive_requested,
                   archive_seen, exit_code, raised>>

\* lines 122-136: the page has no element of class "hyphenate lead"; a
\* warning is logged and the loop goes on to the next row
extract_no_lead ==
    /\ pc = "extract" /\ j <= Len(metadata.rows)
    /\ \E r \in ArticleResponses :
          /\ r.kind = "ok" /\ ~r.lead_found
          /\ last' = Seen(r, "none")
    /\ article_requested' = Append(article_requested, RowUrl)
    /\ j' = j + 1
    /\ UNCHANGED <<start_date, end_date, pc, date_list, urls_list, i, times,
                   urls, titles, result, metadata, csv, files, written,
                   archive_requested, archive_seen, exit_code, raised>>

\* lines 122-155: the lead is there; the text is built and written to the
\* row's file, whatever was there before
extract_save ==
    /\ pc = "extract" /\ j <= Len(metadata.rows)
    /\ \E r \in ArticleResponses :
          /\ r.kind = "ok" /\ r.lead_found
          /\ last' = Seen(r, "ok")
          /\ files' = WriteFile(files, ArticlePath(path, RowDate, RowUrl),
                                full_text(r.lead, r.p))
    /\ written' = written \cup {ArticlePath(path, RowDate, RowUrl)}
    /\ article_requested' = Append(article_requested, RowUrl)
    /\ j' = j + 1
    /\ UNCHANGED <<start_date, end_date, pc, date_list, urls_list, i, times,
                   urls, titles, result, metadata, csv, archive_requested,
                   archive_seen, exit_code, raised>>

\* lines 145-152 and 157-159: the lead is there but os.makedirs, open or
\* write raises OSError; the handler logs the URL and the loop goes on.
\* A failed makedirs or open leaves the disk as it was; a write that fails
\* after open(filepath, 'w') leaves the file truncated
extract_io_error ==
    /\ pc = "extract" /\ j <= Len(metadata.rows)
    /\ \E r \in ArticleResponses, io \in IoOutcomes \ {"ok"} :
          /\ r.kind = "ok" /\ r.lead_found
          /\ last' = Seen(r, io)
          /\ IF io = "write_error"
             THEN /\ files' = WriteFile(files,
                                 ArticlePath(path, RowDate, RowUrl), <<>>)
                  /\ written' = written \cup {ArticlePath(path, RowDate, RowUrl)}
             ELSE UNCHANGED <<files, written>>
    /\ article_requested' = Append(article_requested, RowUrl)
    /\ j' = j + 1
    /\ UNCHANGED <<start_date, end_date, pc, date_list, urls_list, i, times,
                   urls, titles, result, metadata, csv, archive_requested,
                   archive_seen, exit_code, raised>>

\* lines 162 and 199: the rows are exhausted; __main__ ends, status 0
extract_return ==
    /\ pc = "extract" /\ j > Len(metadata.rows)
    /\ exit_code' = 0
    /\ pc' = "exit"
    /\ UNCHANGED <<start_date, end_date, date_list, urls_list, i, times, urls,
                   titles, result, metadata, csv, j, files, written,
                   archive_requested, archive_seen, article_requested, last,
                   raised>>

Next ==
    \/ get_metadata_begin
    \/ get_metadata_fetch_error
    \/ get_metadata_no_container
    \/ get_metadata_parse_day
    \/ get_metadata_return
    \/ create_metadata_file_ok
    \/ create_metadata_file_error
    \/ extract_request_error
    \/ extract_no_lead
    \/ extract_save
    \/ extract_io_error
    \/ extract_return

Spec == Init /\ [][Next]_vars

\* ------------------------------------------------------------ claims
\* the rows of a frame tagged with date string d, without the tag
TriplesTagged(df, d) ==
    LET rs == SelectSeq(df.rows, LAMBDA r : r[1] = d)
    IN  [n \in 1..Len(rs) |-> Tail(rs[n])]

\* the (time, url, title) triples an archive page holds
TriplesOn(r) ==
    [n \in 1..Len(r.items) |->
        <<Strip(r.items[n].itemTime), r.items[n].href, r.items[n].title>>]

Returned == pc \in {"create_metadata_file", "extract"} \/ (pc = "exit" /\ raised # "AttributeError")

DateLt(a, b) ==
    \/ a.y < b.y
    \/ a.y = b.y /\ a.m < b.m
    \/ a.y = b.y /\ a.m = b.m /\ a.d < b.d

DigitVal(c) == CHOOSE n \in 0..9 : DigitChars[n + 1] = c

\* a < b for two date strings of the same layout
DateStrLt(a, b) ==
    \E k \in 1..Len(a) :
        /\ \A q \in 1..(k - 1) : a[q] = b[q]
        /\ a[k] # b[k]
        /\ DigitVal(a[k]) < DigitVal(b[k])

UrlOfRow(k) == Col(metadata, metadata.rows[k], "url")

ArticleStep == Len(article_requested') = Len(article_requested) + 1

\* C1: every day whose archive page was fetched and holds N triples has
\* exactly its own N triples, in page order, among the rows of the returned
\* table that carry its date.
C1_EachDayContributesItsOwnTriples ==
    Returned =>
        \A k \in 1..Len(archive_seen) :
            (archive_seen[k].kind = "ok" /\ archive_seen[k].dayInArchive)
            => TriplesTagged(metadata, date_list[k]) = TriplesOn(archive_seen[k])

\* C2: a date whose archive fetch failed contributes no row, get_metadata
\* does not raise, and once get_metadata is over every date of the range has
\* been requested.
C2_FetchFailureSkipsOnlyThatDate ==
    \A k \in 1..Len(archive_seen) :
        archive_seen[k].kind = "RequestException"
        => /\ TriplesTagged(result, date_list[k]) = <<>>
           /\ raised # "AttributeError"
           /\ (pc \notin {"get_metadata", "archive_loop"}
               => archive_requested = urls_list)

\* C3: a fetched archive page without a dayInArchive element is skipped like
\* a failed fetch: nothing is raised, the date has no row, the loop goes on.
C3_MissingContainerIsSkipped ==
    \A k \in 1..Len(archive_seen) :
        (archive_seen[k].kind = "ok" /\ ~archive_seen[k].dayInArchive)
        => /\ raised = "none"
           /\ TriplesTagged(result, date_list[k]) = <<>>
           /\ i > k

\* C4: the iteration of a row whose article page has no lead element leaves
\* every file as it was and moves on to the next row; and a run that ends
\* normally has requested every row's article.
C4_NoLeadWritesNothing ==
    /\ [][(ArticleStep /\ last'.kind = "ok" /\ ~last'.lead_found)
          => (files' = files /\ written' = written
              /\ pc' = "extract" /\ j' = j + 1)]_vars
    /\ []((pc = "exit" /\ exit_code = 0)
          => Len(article_requested) = Len(metadata.rows))

W_C4 ==
    /\ last.kind = "ok" /\ ~last.lead_found
    /\ last.row = 1 /\ j = 2 /\ Len(metadata.rows) >= 2
    /\ pc = "extract"

\* C5: an exception in one row's iteration (the GET, the parse, makedirs,
\* open or write) is caught there: nothing escapes
\* extract_and_save_articles, the loop goes on to the next row, and the rows
\* are requested once each, in table order.
C5_PerRowIsolation ==
    /\ [][(ArticleStep /\ (last'.kind = "Exception" \/ last'.io \notin {"ok", "none"}))
          => (pc' = "extract" /\ j' = j + 1 /\ raised' = "none")]_vars
    /\ [](pc = "extract"
          => article_requested = [k \in 1..(j - 1) |-> UrlOfRow(k)])
    /\ []((pc = "exit" /\ article_requested # <<>>)
          => /\ exit_code = 0 /\ raised = "none"
             /\ article_requested = [k \in 1..Len(metadata.rows) |-> UrlOfRow(k)])

W_C5 ==
    /\ last.kind = "Exception"
    /\ last.row = 1 /\ j = 2 /\ Len(metadata.rows) >= 2
    /\ pc = "extract"

\* C6: with end_date before start_date the date list is empty, no archive
\* page is requested, the table is empty, no article is requested and no
\* article file is written.
C6_ReversedRangeDoesNothing ==
    (DateLt(end_date, start_date) /\ pc # "get_metadata")
    => /\ date_list = <<>> /\ urls_list = <<>>
       /\ archive_requested = <<>>
       /\ result.rows = <<>> /\ metadata.rows = <<>>
       /\ article_requested = <<>>
       /\ written = {} /\ files \in {<<>>, OldFiles(start_date)}

W_C6 ==
    /\ DateLt(end_date, start_date)
    /\ pc = "exit" /\ exit_code = 0 /\ csv.exists

\* C7: for start_date <= end_date the date list has (end - start).days + 1
\* entries, starts at start_date, ends at end_date, each entry is the
\* calendar day after the one before it and greater than it as a string;
\* the URL list has one URL per date in that order, and the archive
\* requests follow the URL list from its start, all of it once
\* get_metadata has returned.
C7_DateListIsTheInclusiveRange ==
    (~DateLt(end_date, start_date) /\ pc # "get_metadata")
    => LET n == CHOOSE n \in 1..(MaxDays + 2) :
                    NextDays(start_date, n)[n] = end_date
           days == NextDays(start_date, n)
       IN  /\ Len(date_list) = DateDiffDays(end_date, start_date) + 1
           /\ Len(date_list) = n
           /\ date_list = [k \in 1..n |-> strftime(days[k])]
           /\ \A k \in 1..(n - 1) : DateStrLt(date_list[k], date_list[k + 1])
           /\ urls_list = [k \in 1..n |-> ARCHIVE_URL \o date_list[k]]
           /\ Len(archive_requested) <= n
           /\ archive_requested = SubSeq(urls_list, 1, Len(archive_requested))
           /\ (Returned => archive_requested = urls_list)

W_C7 ==
    /\ Len(date_list) = 2 /\ start_date.m # end_date.m
    /\ Returned /\ Len(archive_requested) = 2

\* C8: the CSV written for the returned table of K rows has K+1 lines, the
\* first of them the header date,time,url,title.
C8_CsvHasHeaderAndOneLinePerRow ==
    csv.exists
    => /\ Len(csv.lines) = Len(metadata.rows) + 1
       /\ csv.lines[1] = <<"date", ",", "time", ",", "url", ",", "title">>

\* what the claim expects on disk after the iteration of row j: one file,
\* <path>/<date>/<last segment>.txt, holding lead, a space and the
\* paragraphs joined by spaces; every other file as before
ExpectedAfterSave ==
    LET fp == path \o <<"/">> \o RowDate \o <<"/">> \o SplitLast(RowUrl, "/")
              \o <<".txt">>
        text == last'.lead \o <<" ">> \o JoinStr(last'.p, <<" ">>)
    IN  /\ DOMAIN files' = DOMAIN files \cup {fp}
        /\ files'[fp] = text
        /\ \A f \in DOMAIN files \ {fp} : files'[f] = files[f]

\* C9 as stated: every row whose article page is fetched and has a lead
\* gets its file written, with the full text, replacing what was there.
C9_EveryLeadRowIsSaved ==
    [][(ArticleStep /\ last'.kind = "ok" /\ last'.lead_found)
       => ExpectedAfterSave]_vars

\* C9 amended: every row whose article page is fetched and has a lead, and
\* for which makedirs, open and write raise nothing, gets its file written,
\* with the full text, replacing what was there.
C9_LeadRowIsSavedUnlessIoError ==
    [][(ArticleStep /\ last'.kind = "ok" /\ last'.lead_found /\ last'.io = "ok")
       => ExpectedAfterSave]_vars

W_C9 ==
    LET fp == <<"out", "/", "onet", "/", "2", "0", "2", "4", "-", "0", "1", "-",
                "0", "1", "/", "art-1", ".txt">>
    IN  /\ last.io = "ok" /\ last.lead = <<"L">> /\ last.p = <<<<"P">>>>
        /\ fp \in DOMAIN files
        /\ files[fp] = <<"L", " ", "P">>

\* C10: the stages run in the order archive fetching, CSV writing, article
\* fetching: an article is requested or written only after every archive
\* URL was requested and the CSV written; an I/O error of the CSV write
\* ends the process with a non-zero status, no article requested or written.
C10_StagesInOrderAndCsvFailureIsFatal ==
    /\ [][pc' # pc => <<pc, pc'>> \in
            {<<"get_metadata", "archive_loop">>,
             <<"archive_loop", "create_metadata_file">>,
             <<"archive_loop", "exit">>,
             <<"create_metadata_file", "extract">>,
             <<"create_metadata_file", "exit">>,
             <<"extract", "exit">>}]_vars
    /\ []((article_requested # <<>> \/ written # {} \/ pc = "extract")
          => (csv.exists /\ archive_requested = urls_list /\ i > Len(urls_list)))
    /\ [](csv.exists => archive_requested = urls_list)
    /\ [](raised = "OSError"
          => /\ pc = "exit" /\ exit_code # 0
             /\ ~csv.exists
             /\ article_requested = <<>> /\ written = {})

W_C10 ==
    /\ raised = "OSError" /\ pc = "exit" /\ exit_code = 1
    /\ Len(metadata.rows) >= 1

====
